---- MODULE Spec2Model ----
(***************************************************************************)
(* unifi-ddns: a dynamic-DNS update endpoint.  One HTTP handler parses an  *)
(* update request, resolves every hostname to its zone and address record  *)
(* through the provider client and rewrites the record; optionally it also *)
(* replaces an access group's allow-list.                                  *)
(*                                                                         *)
(* Strings are sequences of characters (one-character TLA+ strings), so    *)
(* that split, trim, endsWith, the regular expression and the base64       *)
(* decoding are computed as the runtime computes them.                     *)
(***************************************************************************)
EXTENDS Integers, Sequences, FiniteSets, TLC

(***************************************************************************)
(* Characters.  Latin1[n + 1] is the character of code n; codes without a  *)
(* printable form are named by their hexadecimal code.                     *)
(***************************************************************************)
Latin1 == <<
  "0x00", "0x01", "0x02", "0x03", "0x04", "0x05", "0x06", "0x07",
  "0x08", "\t", "\n", "0x0B", "\f", "\r", "0x0E", "0x0F",
  "0x10", "0x11", "0x12", "0x13", "0x14", "0x15", "0x16", "0x17",
  "0x18", "0x19", "0x1A", "0x1B", "0x1C", "0x1D", "0x1E", "0x1F",
  " ", "!", "\"", "#", "$", "%", "&", "'",
  "(", ")", "*", "+", ",", "-", ".", "/",
  "0", "1", "2", "3", "4", "5", "6", "7",
  "8", "9", ":", ";", "<", "=", ">", "?",
  "@", "A", "B", "C", "D", "E", "F", "G",
  "H", "I", "J", "K", "L", "M", "N", "O",
  "P", "Q", "R", "S", "T", "U", "V", "W",
  "X", "Y", "Z", "[", "0x5C", "]", "^", "_",
  "0x60", "a", "b", "c", "d", "e", "f", "g",
  "h", "i", "j", "k", "l", "m", "n", "o",
  "p", "q", "r", "s", "t", "u", "v", "w",
  "x", "y", "z", "{", "|", "}", "~", "0x7F",
  "0x80", "0x81", "0x82", "0x83", "0x84", "0x85", "0x86", "0x87",
  "0x88", "0x89", "0x8A", "0x8B", "0x8C", "0x8D", "0x8E", "0x8F",
  "0x90", "0x91", "0x92", "0x93", "0x94", "0x95", "0x96", "0x97",
  "0x98", "0x99", "0x9A", "0x9B", "0x9C", "0x9D", "0x9E", "0x9F",
  "0xA0", "0xA1", "0xA2", "0xA3", "0xA4", "0xA5", "0xA6", "0xA7",
  "0xA8", "0xA9", "0xAA", "0xAB", "0xAC", "0xAD", "0xAE", "0xAF",
  "0xB0", "0xB1", "0xB2", "0xB3", "0xB4", "0xB5", "0xB6", "0xB7",
  "0xB8", "0xB9", "0xBA", "0xBB", "0xBC", "0xBD", "0xBE", "0xBF",
  "0xC0", "0xC1", "0xC2", "0xC3", "0xC4", "0xC5", "0xC6", "0xC7",
  "0xC8", "0xC9", "0xCA", "0xCB", "0xCC", "0xCD", "0xCE", "0xCF",
  "0xD0", "0xD1", "0xD2", "0xD3", "0xD4", "0xD5", "0xD6", "0xD7",
  "0xD8", "0xD9", "0xDA", "0xDB", "0xDC", "0xDD", "0xDE", "0xDF",
  "0xE0", "0xE1", "0xE2", "0xE3", "0xE4", "0xE5", "0xE6", "0xE7",
  "0xE8", "0xE9", "0xEA", "0xEB", "0xEC", "0xED", "0xEE", "0xEF",
  "0xF0", "0xF1", "0xF2", "0xF3", "0xF4", "0xF5", "0xF6", "0xF7",
  "0xF8", "0xF9", "0xFA", "0xFB", "0xFC", "0xFD", "0xFE", "0xFF" >>

Chr(n) == Latin1[n + 1]

\* JavaScript's undefined / null, kept apart from every string.
undefined == <<"undefined">>

\* ToBoolean of an optional string: undefined, null and "" are falsy.
Truthy(v) == v # undefined /\ v # <<>>

\* a || b on optional strings.
OrElse(a, b) == IF Truthy(a) THEN a ELSE b

\* WhiteSpace and LineTerminator code points removed by String.prototype.trim.
IsWhiteSpace(c) == c \in {" ", "\t", "\n", "\f", "\r", "0x0B", "0xA0"}

\* Line terminators, which "." of a regular expression does not match.
IsLineTerminator(c) == c \in {"\n", "\r"}

\* The class [\0-\x1F\x7F] of parseBasicAuth.
IsControl(c) == \E n \in (0..31) \cup {127} : Chr(n) = c

RECURSIVE TrimStart(_)
TrimStart(s) ==
  IF s # <<>> /\ IsWhiteSpace(Head(s)) THEN TrimStart(Tail(s)) ELSE s

RECURSIVE TrimEnd(_)
TrimEnd(s) ==
  IF s # <<>> /\ IsWhiteSpace(s[Len(s)])
  THEN TrimEnd(SubSeq(s, 1, Len(s) - 1))
  ELSE s

\* String.prototype.trim
Trim(s) == TrimEnd(TrimStart(s))

\* String.prototype.includes for a one-character needle.
Includes(s, c) == \E i \in 1..Len(s) : s[i] = c

\* String.prototype.endsWith
EndsWith(s, suffix) ==
  /\ Len(suffix) <= Len(s)
  /\ SubSeq(s, Len(s) - Len(suffix) + 1, Len(s)) = suffix

\* String.prototype.indexOf for a one-character needle, 1-based; 0 when the
\* character is absent (JavaScript's -1).
IndexOf(s, c) ==
  IF Includes(s, c)
  THEN CHOOSE i \in 1..Len(s) : s[i] = c /\ \A j \in 1..(i - 1) : s[j] # c
  ELSE 0

\* String.prototype.split with a one-character separator: always at least one
\* element, empty elements are kept.
RECURSIVE Split(_, _)
Split(s, sep) ==
  LET i == IndexOf(s, sep)
  IN IF i = 0
     THEN <<s>>
     ELSE <<SubSeq(s, 1, i - 1)>> \o Split(SubSeq(s, i + 1, Len(s)), sep)

\* Array.prototype.join
RECURSIVE Join(_, _)
Join(list, sep) ==
  IF list = <<>> THEN <<>>
  ELSE IF Len(list) = 1 THEN list[1]
  ELSE list[1] \o sep \o Join(Tail(list), sep)

(***************************************************************************)
(* atob: the forgiving-base64 decode of the HTML standard.                 *)
(***************************************************************************)
Base64Alphabet == <<
  "A", "B", "C", "D", "E", "F", "G", "H", "I", "J", "K", "L", "M", "N", "O", "P",
  "Q", "R", "S", "T", "U", "V", "W", "X", "Y", "Z", "a", "b", "c", "d", "e", "f",
  "g", "h", "i", "j", "k", "l", "m", "n", "o", "p", "q", "r", "s", "t", "u", "v",
  "w", "x", "y", "z", "0", "1", "2", "3", "4", "5", "6", "7", "8", "9", "+", "/" >>

Base64Value(c) == (CHOOSE i \in 1..64 : Base64Alphabet[i] = c) - 1

IsBase64Char(c) == \E i \in 1..64 : Base64Alphabet[i] = c

IsAsciiWhitespace(c) == c \in {" ", "\t", "\n", "\f", "\r"}

StripAsciiWhitespace(s) == SelectSeq(s, LAMBDA c : ~IsAsciiWhitespace(c))

\* Drop one or two trailing "=" when the length is a multiple of four.
StripPadding(s) ==
  IF Len(s) % 4 = 0 /\ Len(s) > 0 /\ s[Len(s)] = "="
  THEN IF s[Len(s) - 1] = "="
       THEN SubSeq(s, 1, Len(s) - 2)
       ELSE SubSeq(s, 1, Len(s) - 1)
  ELSE s

\* The bytes of a sequence of base64 characters; leftover bits are dropped.
RECURSIVE DecodeSextets(_)
DecodeSextets(s) ==
  IF Len(s) >= 4
  THEN LET n == Base64Value(s[1]) * 262144 + Base64Value(s[2]) * 4096
                + Base64Value(s[3]) * 64 + Base64Value(s[4])
       IN <<Chr(n \div 65536), Chr((n \div 256) % 256), Chr(n % 256)>>
            \o DecodeSextets(SubSeq(s, 5, Len(s)))
  ELSE IF Len(s) = 3
  THEN LET n == Base64Value(s[1]) * 4096 + Base64Value(s[2]) * 64
                + Base64Value(s[3])
       IN <<Chr(n \div 1024), Chr((n \div 4) % 256)>>
  ELSE IF Len(s) = 2
  THEN LET n == Base64Value(s[1]) * 64 + Base64Value(s[2])
       IN <<Chr(n \div 16)>>
  ELSE <<>>

\* atob(data): [ok |-> TRUE, value |-> the binary string], or ok = FALSE when
\* the runtime throws a DOMException (InvalidCharacterError).  An undefined
\* argument is converted to the string "undefined" first.
Atob(data) ==
  LET text == IF data = undefined
              THEN <<"u", "n", "d", "e", "f", "i", "n", "e", "d">>
              ELSE data
      s    == StripPadding(StripAsciiWhitespace(text))
  IN IF Len(s) % 4 = 1 \/ \E i \in 1..Len(s) : ~IsBase64Char(s[i])
     THEN [ok |-> FALSE, value |-> <<>>]
     ELSE [ok |-> TRUE, value |-> DecodeSextets(s)]

(***************************************************************************)
(* Exceptions and responses.  A status of 0 stands for "no status field".  *)
(* A body is a tuple: a fixed text, or a text followed by the name it      *)
(* quotes; the empty tuple is the null body.                               *)
(***************************************************************************)
NoError == [status |-> 0, message |-> <<"<no error>">>]

\* class BadRequestException: status 400.
BadRequestException(reason) == [status |-> 400, message |-> reason]

\* class CloudflareApiException: the status defaults to 500.
CloudflareApiException(reason, status) ==
  [status |-> IF status = 0 THEN 500 ELSE status, message |-> reason]

\* The DOMException (InvalidCharacterError) thrown by atob: it has a message
\* and no status field.
InvalidCharacterError == [status |-> 0, message |-> <<"InvalidCharacterError">>]

NoResponse == [status |-> 0, body |-> <<"<no response>">>]

\* new Response("good", {status: 200, ...})
Good == [status |-> 200, body |-> <<"good">>]

\* new Response("Not Found.", {status: 404})
NotFound == [status |-> 404, body |-> <<"Not Found.">>]

\* new Response(null, {status: 204})
NoContent == [status |-> 204, body |-> <<>>]

\* Variant of the catch block that answers 500 whatever the error's status.
ErrorResponseAlways500(err) ==
  [status |-> 500,
   body   |-> IF err.message = <<>> THEN <<"Unknown Error">> ELSE err.message]

\* The catch block of fetch: err.reason is never set, so the body is
\* err.message || "Unknown Error" and the status err.status || 500.
ErrorResponse(err) ==
  [status |-> IF err.status = 0 THEN 500 ELSE err.status,
   body   |-> IF err.message = <<>> THEN <<"Unknown Error">> ELSE err.message]

(***************************************************************************)
(* Request interpretation.                                                 *)
(***************************************************************************)
Favicon == <<"/", "f", "a", "v", "i", "c", "o", "n", ".", "i", "c", "o">>
Robots  == <<"/", "r", "o", "b", "o", "t", "s", ".", "t", "x", "t">>
UpdateSuffix == <<"/", "u", "p", "d", "a", "t", "e">>

\* requireHttps of the HTTPS-enforcing handler: TRUE when it throws.
RequireHttpsThrows(req) ==
  req.protocol # "https:" \/ req.forwardedProto # "https"

\* The handler of the HTTPS-enforcing variant calls requireHttps first; the
\* other handler has no such call.
HttpsRejected(req) ==
  req.variant = "js" /\ RequireHttpsThrows(req)

\* parseBasicAuth: error is NoError when it returns.
ParseBasicAuth(req) ==
  IF ~Truthy(req.authorization)
  THEN [error |-> NoError, username |-> undefined, password |-> undefined]
  ELSE
    LET parts   == Split(req.authorization, " ")
        data    == IF Len(parts) >= 2 THEN parts[2] ELSE undefined
        atob    == Atob(data)
        decoded == atob.value
        index   == IndexOf(decoded, ":")
    IN IF ~atob.ok
       THEN [error |-> InvalidCharacterError,
             username |-> undefined, password |-> undefined]
       ELSE IF index = 0 \/ \E i \in 1..Len(decoded) : IsControl(decoded[i])
       THEN [error |-> BadRequestException(<<"Invalid authorization value.">>),
             username |-> undefined, password |-> undefined]
       ELSE [error    |-> NoError,
             username |-> SubSeq(decoded, 1, index - 1),
             password |-> SubSeq(decoded, index + 1, Len(decoded))]

\* (x)?.split(","): undefined stays undefined.
OptionalSplit(v) == IF v = undefined THEN undefined ELSE Split(v, ",")

\* hostname || host || domains, split on commas.
ResolveHostnames(req) ==
  OptionalSplit(OrElse(OrElse(req.query.hostname, req.query.host),
                       req.query.domains))

\* ips || ip || myip || Cf-Connecting-Ip, split on commas.
ResolveIps(req) ==
  OptionalSplit(OrElse(OrElse(OrElse(req.query.ips, req.query.ip),
                              req.query.myip),
                       req.cfConnectingIp))

\* !hostnames?.length || !ips?.length
ListsMissing(hostnames, ips) ==
  \/ hostnames = undefined \/ Len(hostnames) = 0
  \/ ips = undefined \/ Len(ips) = 0

\* account || env.ACCOUNT_ID
ResolveAccountId(req) == OrElse(req.query.account, req.env.ACCOUNT_ID)

\* group || env.ACCESS_GROUP_ID
ResolveAccessGroupId(req) ==
  OrElse(req.query.group, req.env.ACCESS_GROUP_ID)

\* Variant of the token resolution that prefers the query parameter.
ResolveTokenQueryFirst(req, password) ==
  OrElse(OrElse(req.query.token, password), req.env.DDNS_TOKEN)

\* password || token, then token || env.DDNS_TOKEN
ResolveToken(req, password) ==
  OrElse(OrElse(password, req.query.token), req.env.DDNS_TOKEN)

(***************************************************************************)
(* Domain derivation of updateDNSRecords.                                  *)
(***************************************************************************)
\* [^.]+\.[^.]+ anchored at both ends.
IsTwoLabels(s) ==
  LET dot == IndexOf(s, ".")
  IN /\ dot > 1
     /\ dot < Len(s)
     /\ \A i \in (dot + 1)..Len(s) : s[i] # "."

\* hostname.replace(/.*?([^.]+\.[^.]+)$/, "$1"): the leftmost start, then the
\* shortest lazy prefix (which "." extends over no line terminator), such that
\* the rest of the string is the group; the match is replaced by the group.
\* Without a match the string is returned unchanged.
ReplaceWithLastTwoLabels(hostname) ==
  LET n == Len(hostname)
      Matches(start, group) ==
        /\ start <= group
        /\ \A i \in start..(group - 1) : ~IsLineTerminator(hostname[i])
        /\ IsTwoLabels(SubSeq(hostname, group, n))
      Found == {m \in (1..n) \X (1..n) : Matches(m[1], m[2])}
      First == CHOOSE m \in Found :
                 \A o \in Found : m[1] < o[1] \/ (m[1] = o[1] /\ m[2] <= o[2])
  IN IF Found = {}
     THEN hostname
     ELSE SubSeq(hostname, 1, First[1] - 1) \o SubSeq(hostname, First[2], n)

\* Variant of the heuristic that forgets the authenticated name.
DomainNameIgnoringName(name, hostname) == ReplaceWithLastTwoLabels(hostname)

\* name && hostname.endsWith(name) ? name : hostname.replace(...)
DomainName(name, hostname) ==
  IF Truthy(name) /\ EndsWith(hostname, name)
  THEN name
  ELSE ReplaceWithLastTwoLabels(hostname)

(***************************************************************************)
(* The DNS provider, as the client sees it: zones and records that are     *)
(* listed by exact filters, a record edit that replaces the attributes it  *)
(* is sent, and an access group whose include list a PUT replaces.         *)
(***************************************************************************)
DomainBC == <<"b", ".", "c">>
DomainDE == <<"d", ".", "e">>
HostABC  == <<"a", ".", "b", ".", "c">>
HostXBC  == <<"x", ".", "b", ".", "c">>
HostDE   == <<"d", ".", "e">>

IpV4     == <<"1", ".", "1", ".", "1", ".", "1">>
IpV6     == <<":", ":", "1">>
IpV6Spaced == <<" ", ":", ":", "1">>
IpV4Other == <<"2", ".", "2", ".", "2", ".", "2">>

\* The zones of the account: interface CloudflareZone.
ProviderZones ==
  << [id |-> "z1", name |-> DomainBC], [id |-> "z2", name |-> DomainDE] >>

\* The records of the account before any request: interface
\* CloudflareDnsRecord.  x.b.c has no AAAA record.
InitialRecords ==
  << [id |-> "r1", zone_id |-> "z1", type |-> "A", name |-> HostABC,
      content |-> <<"9", ".", "9", ".", "9", ".", "9">>,
      proxied |-> TRUE, ttl |-> 1],
     [id |-> "r2", zone_id |-> "z1", type |-> "AAAA", name |-> HostABC,
      content |-> <<":", ":", "9">>, proxied |-> FALSE, ttl |-> 300],
     [id |-> "r3", zone_id |-> "z1", type |-> "A", name |-> HostXBC,
      content |-> <<"9", ".", "9", ".", "9", ".", "9">>,
      proxied |-> FALSE, ttl |-> 120],
     [id |-> "r4", zone_id |-> "z2", type |-> "AAAA", name |-> HostDE,
      content |-> <<":", ":", "9">>, proxied |-> TRUE, ttl |-> 1],
     [id |-> "r5", zone_id |-> "z2", type |-> "A", name |-> HostDE,
      content |-> <<"9", ".", "9", ".", "9", ".", "9">>,
      proxied |-> FALSE, ttl |-> 60] >>

\* What the upstream answers to one call: success, or a failure that is a
\* transport error (no status) or a non-2xx status with its message.
UpstreamOk == [ok |-> TRUE, status |-> 200, message |-> <<"OK">>]

UpstreamFailures ==
  { [ok |-> FALSE, status |-> 0,   message |-> <<"fetch failed">>],
    [ok |-> FALSE, status |-> 403, message |-> <<"Authentication error">>],
    [ok |-> FALSE, status |-> 503, message |-> <<"Service Unavailable">>] }

UpstreamReplies == {UpstreamOk} \cup UpstreamFailures

\* The upstream has not answered yet.
NoReply == [ok |-> FALSE, status |-> 0, message |-> <<"<no reply>">>]

\* What a client method hands back to its awaiting caller.
Returned(value) == [threw |-> FALSE, value |-> value, error |-> NoError]
Thrown(error)   == [threw |-> TRUE, value |-> <<>>, error |-> error]

\* The error a client method throws for a failed upstream call.  The typed
\* client wraps it with (error.status || 500).  The fetch-based client lets a
\* transport error pass unwrapped and turns every body without the success
\* flag into a CloudflareApiException of the default status.
UpstreamError(variant, reply) ==
  IF variant = "ts"
  THEN CloudflareApiException(reply.message, reply.status)
  ELSE IF reply.status = 0
       THEN [status |-> 0, message |-> reply.message]
       ELSE CloudflareApiException(reply.message, 0)

\* findZone(name) of either client.
FindZone(variant, name, reply) ==
  IF ~reply.ok
  THEN Thrown(UpstreamError(variant, reply))
  ELSE
    LET result == SelectSeq(ProviderZones, LAMBDA z : z.name = name)
    IN IF Len(result) = 0
       THEN Thrown(CloudflareApiException(<<"Failed to find zone", name>>, 404))
       ELSE Returned([id |-> result[1].id, name |-> result[1].name])

\* Variant of findRecord that lists the records of the zone whatever their
\* type and takes the first of the requested name.
FindRecordAnyType(variant, recs, zone, name, isIPV4, reply) ==
  IF ~reply.ok
  THEN Thrown(UpstreamError(variant, reply))
  ELSE
    LET found == SelectSeq(recs,
                   LAMBDA rr : rr.zone_id = zone.id /\ rr.name = name)
    IN IF Len(found) = 0
       THEN Thrown(CloudflareApiException(
                     <<"Failed to find DNS record", name>>, 404))
       ELSE Returned(found[1])

\* findRecord(zone, name, isIPV4).  The typed client lists the records of the
\* zone and type and filters them by name; the fetch-based client lists the
\* records of the zone and name and picks the first of the type.
FindRecord(variant, recs, zone, name, isIPV4, reply) ==
  IF ~reply.ok
  THEN Thrown(UpstreamError(variant, reply))
  ELSE
    LET recordType == IF isIPV4 THEN "A" ELSE "AAAA"
        listed == IF variant = "ts"
                  THEN SelectSeq(recs, LAMBDA rr :
                         rr.zone_id = zone.id /\ rr.type = recordType)
                  ELSE SelectSeq(recs, LAMBDA rr :
                         rr.zone_id = zone.id /\ rr.name = name)
        found  == IF variant = "ts"
                  THEN SelectSeq(listed, LAMBDA rr : rr.name = name)
                  ELSE SelectSeq(listed, LAMBDA rr : rr.type = recordType)
    IN IF Len(found) = 0
       THEN Thrown(CloudflareApiException(
                     <<"Failed to find DNS record", name>>, 404))
       ELSE IF variant = "ts"
       THEN Returned([id      |-> found[1].id,
                      zone_id |-> zone.id,
                      type    |-> found[1].type,
                      name    |-> IF found[1].name = <<>>
                                  THEN name ELSE found[1].name,
                      content |-> found[1].content,
                      proxied |-> found[1].proxied,
                      ttl     |-> IF found[1].ttl = 0 THEN 1 ELSE found[1].ttl])
       ELSE Returned(found[1])

\* updateRecord(record, value): the result handed to the caller.
UpdateRecord(variant, record, value, reply) ==
  IF ~reply.ok
  THEN Thrown(UpstreamError(variant, reply))
  ELSE Returned([record EXCEPT !.content = value])

\* Variant of the edit that sends only the new content, so that the provider
\* falls back to the automatic TTL and an unproxied record.
ApplyEditContentOnly(recs, record, value) ==
  [i \in 1..Len(recs) |->
     IF recs[i].id = record.id /\ recs[i].zone_id = record.zone_id
     THEN [recs[i] EXCEPT !.content = value, !.ttl = 1, !.proxied = FALSE]
     ELSE recs[i]]

\* Variant of the edit that the provider applies only while the record still
\* has the content it had when it was found.
ApplyEditIfUnchanged(recs, record, value) ==
  [i \in 1..Len(recs) |->
     IF /\ recs[i].id = record.id /\ recs[i].zone_id = record.zone_id
        /\ recs[i].content = record.content
     THEN [recs[i] EXCEPT !.type = record.type, !.name = record.name,
                          !.content = value, !.ttl = record.ttl,
                          !.proxied = record.proxied]
     ELSE recs[i]]

\* The provider's records after the edit that updateRecord sends: the record of
\* that id takes the type, name, ttl and proxied flag of the found record and
\* the new content.
ApplyEdit(recs, record, value) ==
  [i \in 1..Len(recs) |->
     IF recs[i].id = record.id /\ recs[i].zone_id = record.zone_id
     THEN [recs[i] EXCEPT !.type = record.type, !.name = record.name,
                          !.content = value, !.ttl = record.ttl,
                          !.proxied = record.proxied]
     ELSE recs[i]]

\* The include list that updateAccessGroup puts: the one entry `${ip}/32`.
AccessGroupInclude(ip) == << ip \o <<"/", "3", "2">> >>

\* updateAccessGroup(account, group, ip): the result handed to the caller.
UpdateAccessGroup(variant, reply) ==
  IF ~reply.ok
  THEN Thrown(UpstreamError(variant, reply))
  ELSE Returned(<<>>)

(***************************************************************************)
(* State.                                                                  *)
(*   request       the inbound request and the environment of each handler *)
(*                 invocation                                              *)
(*   ctx           the locals of each invocation: where it is suspended,   *)
(*                 the parsed request, the loop positions, the zone cache  *)
(*   calls         the provider calls each invocation has issued, in       *)
(*                 order, each with its outcome once it has returned       *)
(*   records       the provider's DNS records                              *)
(*   accessGroups  the provider's access groups: their include lists       *)
(*   probe         input and output of the domain derivation taken alone   *)
(***************************************************************************)
VARIABLES request, ctx, calls, records, accessGroups, probe

vars == <<request, ctx, calls, records, accessGroups, probe>>

RequestIds == {1, 2}

NoZone == [id |-> "", name |-> <<>>]

NoRecord ==
  [id |-> "", zone_id |-> "", type |-> "", name |-> <<>>, content |-> <<>>,
   proxied |-> FALSE, ttl |-> 0]

\* The locals of an invocation that has not run yet.
InitialContext ==
  [pc |-> "start", response |-> NoResponse,
   username |-> undefined, token |-> undefined,
   hostnames |-> <<>>, ips |-> <<>>,
   accountId |-> undefined, accessGroupId |-> undefined,
   ipIdx |-> 0, hIdx |-> 0, ip |-> <<>>, isIPV4 |-> FALSE,
   zones |-> <<>>, domainName |-> <<>>, zone |-> NoZone, record |-> NoRecord]

IdleContext == [InitialContext EXCEPT !.pc = "idle"]

\* The awaits of the handler: the provider call the invocation is suspended on.
AwaitPcs == {"findZone", "findRecord", "updateRecord", "updateAccessGroup"}

\* Map.prototype.has and Map.prototype.get on the zone cache, a list of
\* entries in insertion order.
ZonesHas(zones, key) == \E i \in 1..Len(zones) : zones[i].key = key

ZonesGet(zones, key) ==
  zones[CHOOSE i \in 1..Len(zones) : zones[i].key = key].value

\* Map.prototype.set
ZonesSet(zones, key, value) ==
  IF ZonesHas(zones, key)
  THEN [i \in 1..Len(zones) |->
          IF zones[i].key = key THEN [key |-> key, value |-> value]
          ELSE zones[i]]
  ELSE Append(zones, [key |-> key, value |-> value])

\* return new Response(...) of handleRequest.
Respond(L, response) == [L EXCEPT !.pc = "done", !.response = response]

\* const zone = zones.get(domainName); then the invocation awaits findRecord.
AwaitFindRecord(L) ==
  [L EXCEPT !.pc = "findRecord", !.zone = ZonesGet(L.zones, L.domainName)]

RECURSIVE ForEachIp(_)
RECURSIVE ForEachHostname(_)

\* Variant of the access-group step that needs only one of the identifiers.
AfterUpdateDNSRecordsEitherId(L) ==
  IF Truthy(L.accountId) \/ Truthy(L.accessGroupId)
  THEN [L EXCEPT !.pc = "updateAccessGroup"]
  ELSE ForEachIp([L EXCEPT !.ipIdx = @ + 1])

\* if (accountId && accessGroupId) await cloudflare.updateAccessGroup(...),
\* else on to the next IP.
AfterUpdateDNSRecords(L) ==
  IF Truthy(L.accountId) /\ Truthy(L.accessGroupId)
  THEN [L EXCEPT !.pc = "updateAccessGroup"]
  ELSE ForEachIp([L EXCEPT !.ipIdx = @ + 1])

\* Variant of the loop body that looks the zone up for every hostname.
ResolveZoneUncached(L, domainName) ==
  [L EXCEPT !.pc = "findZone", !.domainName = domainName]

\* if (!zones.has(domainName)) await cloudflare.findZone(domainName), else the
\* cached zone is used.
ResolveZone(L, domainName) ==
  IF ~ZonesHas(L.zones, domainName)
  THEN [L EXCEPT !.pc = "findZone", !.domainName = domainName]
  ELSE AwaitFindRecord([L EXCEPT !.domainName = domainName])

\* for (const hostname of hostnames) of updateDNSRecords, from position hIdx
\* up to the next await; past the last hostname updateDNSRecords returns.
ForEachHostname(L) ==
  IF L.hIdx > Len(L.hostnames)
  THEN AfterUpdateDNSRecords(L)
  ELSE ResolveZone(L, DomainName(L.username, L.hostnames[L.hIdx]))

\* Variant of updateDNSRecords that keeps the zone cache of the call before.
UpdateDNSRecordsKeepingZones(L) ==
  LET ip == Trim(L.ips[L.ipIdx])
  IN ForEachHostname([L EXCEPT !.ip = ip, !.isIPV4 = Includes(ip, "."),
                               !.hIdx = 1])

\* updateDNSRecords(cloudflare, hostnames, ip.trim(), username) up to its
\* first await: the record type and a fresh zone cache.
UpdateDNSRecords(L) ==
  LET ip == Trim(L.ips[L.ipIdx])
  IN ForEachHostname([L EXCEPT !.ip = ip, !.isIPV4 = Includes(ip, "."),
                               !.zones = <<>>, !.hIdx = 1])

\* Variant of the loop over the IPs that answers after the first IP.
ForEachIpFirstOnly(L) ==
  IF L.ipIdx > 1
  THEN Respond(L, Good)
  ELSE UpdateDNSRecords(L)

\* for (const ip of ips) of handleRequest, from position ipIdx up to the next
\* await; past the last IP the handler answers "good".
ForEachIp(L) ==
  IF L.ipIdx > Len(L.ips)
  THEN Respond(L, Good)
  ELSE UpdateDNSRecords(L)

\* Variant of the propagation in which a failure inside the hostname loop is
\* swallowed and the loop goes on with the next hostname.
ThrowContinuing(L, err) ==
  IF L.pc \in {"findZone", "findRecord", "updateRecord"}
  THEN ForEachHostname([L EXCEPT !.hIdx = @ + 1])
  ELSE Respond(L, ErrorResponse(err))

\* Variant of the propagation in which a failed access-group update is
\* swallowed and the handler goes on with the next IP.
ThrowUnlessAccessGroup(L, err) ==
  IF L.pc = "updateAccessGroup"
  THEN ForEachIp([L EXCEPT !.ipIdx = @ + 1])
  ELSE Respond(L, ErrorResponse(err))

\* A throw anywhere in handleRequest: nothing catches it before the catch
\* block of fetch, which answers with the error's status and message.
Throw(L, err) == Respond(L, ErrorResponse(err))

\* Variant of the validation that rejects only when both lists are missing.
ValidateBothMissing(L, hostnames, ips) ==
  IF (hostnames = undefined) /\ (ips = undefined)
  THEN Throw(L, BadRequestException(
         <<"You must specify both hostname(s) and IP address(es)">>))
  ELSE ForEachIp([L EXCEPT !.hostnames = IF hostnames = undefined
                                         THEN <<HostABC>> ELSE hostnames,
                           !.ips = IF ips = undefined THEN <<IpV4>> ELSE ips,
                           !.ipIdx = 1])

\* if (!hostnames?.length || !ips?.length) throw ...; otherwise the client is
\* constructed and the loop over the IPs starts.
Validate(L, hostnames, ips) ==
  IF ListsMissing(hostnames, ips)
  THEN Throw(L, BadRequestException(
         <<"You must specify both hostname(s) and IP address(es)">>))
  ELSE ForEachIp([L EXCEPT !.hostnames = hostnames, !.ips = ips, !.ipIdx = 1])

\* Variant of the routing that lets every path through.
RouteAnyPath(req) == "update"

\* The routing of handleRequest: "nocontent" for favicon and robots,
\* "notfound" for a path that does not end in /update or a request without
\* Authorization header and token parameter, "update" otherwise.
Route(req) ==
  IF req.pathname = Favicon \/ req.pathname = Robots
  THEN "nocontent"
  ELSE IF ~EndsWith(req.pathname, UpdateSuffix)
  THEN "notfound"
  ELSE IF req.authorization = undefined /\ req.query.token = undefined
  THEN "notfound"
  ELSE "update"

\* handleRequest up to its first await or its response.
HandleRequest(req) ==
  LET L     == InitialContext
      route == Route(req)
      auth  == ParseBasicAuth(req)
  IN IF HttpsRejected(req)
     THEN Throw(L, BadRequestException(<<"Please use a HTTPS connection.">>))
     ELSE IF route = "nocontent" THEN Respond(L, NoContent)
     ELSE IF route = "notfound" THEN Respond(L, NotFound)
     ELSE IF auth.error # NoError THEN Throw(L, auth.error)
     ELSE Validate([L EXCEPT !.username = auth.username,
                             !.token = ResolveToken(req, auth.password),
                             !.accountId = ResolveAccountId(req),
                             !.accessGroupId = ResolveAccessGroupId(req)],
                   ResolveHostnames(req), ResolveIps(req))

\* Variant of the step after findRecord that skips the write when the record
\* already has the new content.
AfterFindRecordSkipEqual(L, record) ==
  IF record.content = L.ip
  THEN ForEachHostname([L EXCEPT !.record = record, !.hIdx = @ + 1])
  ELSE [L EXCEPT !.pc = "updateRecord", !.record = record]

\* const record = await cloudflare.findRecord(...); then the invocation awaits
\* updateRecord(record, ip), whatever the record's content is.
AfterFindRecord(L, record) ==
  [L EXCEPT !.pc = "updateRecord", !.record = record]

\* The provider call an invocation is suspended on, as an entry of calls.
PendingCall(L) ==
  [op     |-> L.pc,
   ipIdx  |-> L.ipIdx,
   hIdx   |-> IF L.pc = "updateAccessGroup" THEN 0 ELSE L.hIdx,
   arg    |-> CASE L.pc = "findZone" -> [name |-> L.domainName]
                [] L.pc = "findRecord" ->
                     [zone |-> L.zone, name |-> L.hostnames[L.hIdx],
                      isIPV4 |-> L.isIPV4]
                [] L.pc = "updateRecord" -> [record |-> L.record, value |-> L.ip]
                [] L.pc = "updateAccessGroup" ->
                     [account |-> L.accountId, group |-> L.accessGroupId,
                      ip |-> L.ips[L.ipIdx]],
   result |-> "pending",
   reply  |-> NoReply,
   ret    |-> <<>>]

\* The last call of the log has returned with this outcome, on this answer of
\* the upstream.
Complete(log, outcome, reply) ==
  [log EXCEPT ![Len(log)] =
     [@ EXCEPT !.result = IF outcome.threw THEN "fail" ELSE "ok",
               !.reply = reply,
               !.ret = IF outcome.threw THEN outcome.error ELSE outcome.value]]

\* The log once the invocation has run up to its next await.
Issue(log, L) == IF L.pc \in AwaitPcs THEN Append(log, PendingCall(L)) ELSE log

(***************************************************************************)
(* Inputs.                                                                 *)
(***************************************************************************)
\* The longest hostname list and IP list of a request.
MaxHostnames == 2
MaxIps == 2

\* The longest hostname and authenticated name given to the domain derivation
\* taken alone.
MaxHostnameLen == 5
MaxNameLen == 3

\* All sequences over a set of at most n elements, and those of at least one.
SeqsUpTo(S, n) == UNION {[1..k -> S] : k \in 0..n}

ListsUpTo(S, n) == SeqsUpTo(S, n) \ {<<>>}

Comma == <<",">>

NoHeader == "<absent>"

TokenQ == <<"Q">>
TokenE == <<"E">>

\* "Basic " and the base64 of b.c:T, of c:T, of b.c: (an empty password), of
\* b.c (no colon) and of
\* u<0x01>:T (a control character); a payload that is no base64; a header
\* without payload; a header with an empty payload; an empty header.
AuthBC        == <<"B", "a", "s", "i", "c", " ", "Y", "i", "5", "j", "O", "l", "Q", "=">>
AuthC         == <<"B", "a", "s", "i", "c", " ", "Y", "z", "p", "U">>
AuthEmptyPassword == <<"B", "a", "s", "i", "c", " ", "Y", "i", "5", "j", "O", "g", "=", "=">>
AuthNoColon   == <<"B", "a", "s", "i", "c", " ", "Y", "i", "5", "j">>
AuthControl   == <<"B", "a", "s", "i", "c", " ", "d", "Q", "E", "6", "V", "A", "=", "=">>
AuthNotBase64 == <<"B", "a", "s", "i", "c", " ", "!", "!", "!", "!">>
AuthNoPayload == <<"B", "a", "s", "i", "c">>
AuthEmptyPayload == <<"B", "a", "s", "i", "c", " ", " ", "x">>

AuthorizationHeaders ==
  {undefined, <<>>, AuthBC, AuthNoColon, AuthControl, AuthNotBase64,
   AuthNoPayload, AuthEmptyPayload}

Pathnames ==
  {Favicon, Robots, UpdateSuffix,
   <<"/", "n", "i", "c", "/", "u", "p", "d", "a", "t", "e">>,
   <<"/", "u", "p", "d", "a", "t", "e", "s">>}

\* URL scheme and x-forwarded-proto header.
Schemes ==
  {<<"https:", "https">>, <<"http:", "https">>, <<"https:", NoHeader>>}

Variants == {"ts", "js"}

HostnamePool == {HostABC, HostXBC, HostDE}
\* An IPv4 address, and an IPv6 address as it follows ", " in a list.
IpPool == {IpV4, IpV6Spaced}

BaseRequest ==
  [variant |-> "ts", protocol |-> "https:", forwardedProto |-> "https",
   pathname |-> UpdateSuffix, authorization |-> undefined,
   cfConnectingIp |-> undefined,
   query |-> [token |-> TokenQ, hostname |-> undefined, host |-> undefined,
              domains |-> undefined, ips |-> undefined, ip |-> undefined,
              myip |-> undefined, account |-> undefined, group |-> undefined],
   env |-> [DDNS_TOKEN |-> TokenE, ACCOUNT_ID |-> undefined,
            ACCESS_GROUP_ID |-> undefined]]

\* Requests that differ in scheme, path and credentials.
HttpRequests ==
  {[BaseRequest EXCEPT !.variant = v, !.protocol = s[1],
                       !.forwardedProto = s[2], !.pathname = p,
                       !.authorization = a, !.query.token = t,
                       !.query.hostname = h, !.query.domains = d,
                       !.query.ip = i, !.cfConnectingIp = c] :
     v \in Variants, s \in Schemes, p \in Pathnames,
     a \in AuthorizationHeaders, t \in {undefined, TokenQ},
     h \in {undefined, <<>>, HostABC}, d \in {undefined, <<>>},
     i \in {undefined, IpV4}, c \in {undefined, IpV6}}

\* Requests that differ in which of the alternative parameters they carry.
ParameterRequests ==
  {[BaseRequest EXCEPT !.query.hostname = h, !.query.host = o,
                       !.query.domains = d, !.query.ips = i[1],
                       !.query.ip = i[2], !.query.myip = i[3],
                       !.cfConnectingIp = i[4],
                       !.query.account = a[1], !.env.ACCOUNT_ID = a[2],
                       !.query.group = a[3], !.env.ACCESS_GROUP_ID = a[4]] :
     h \in {undefined, HostABC}, o \in {undefined, HostXBC},
     d \in {undefined, HostDE},
     i \in {undefined, IpV4} \X {undefined, <<"3", ".", "3", ".", "3", ".", "3">>}
           \X {undefined, <<":", ":", "4">>} \X {undefined, IpV6},
     a \in {undefined, <<>>, <<"A">>} \X {undefined, <<"B">>}
           \X {undefined, <<"G">>} \X {undefined, <<"H">>}}

\* Requests that differ in their hostname and IP lists.
ListRequests ==
  {[BaseRequest EXCEPT !.variant = v, !.authorization = a,
                       !.query.hostname = Join(hs, Comma),
                       !.query.ips = Join(is, Comma),
                       !.query.account = <<"A">>, !.query.group = g] :
     v \in Variants, a \in {undefined, AuthC},
     hs \in ListsUpTo(HostnamePool, MaxHostnames),
     is \in ListsUpTo(IpPool, MaxIps),
     g \in {undefined, <<"G">>}}

\* Requests that differ in where their token comes from.
TokenRequests ==
  {[BaseRequest EXCEPT !.authorization = a, !.query.token = t,
                       !.query.hostname = HostABC, !.query.ip = IpV4] :
     a \in {undefined, AuthBC, AuthEmptyPassword},
     t \in {undefined, <<>>, TokenQ}}

Requests ==
  HttpRequests \cup ParameterRequests \cup ListRequests \cup TokenRequests

AccountIds == {<<"A">>, <<"B">>}
GroupIds == {<<"G">>, <<"H">>}

\* The include list of every access group before any request.
InitialInclude ==
  << <<"8", ".", "8", ".", "8", ".", "8", "/", "3", "2">>,
     <<"7", ".", "7", ".", "7", ".", "7", "/", "3", "2">> >>

IdleProbe ==
  [pc |-> "idle", name |-> undefined, hostname |-> <<>>, domainName |-> <<>>]

DomainAlphabet == {"a", "b", "."}

(***************************************************************************)
(* One request handled by one invocation of fetch.                         *)
(***************************************************************************)
Init ==
  /\ \E req \in Requests :
       request = [r \in RequestIds |-> IF r = 1 THEN req ELSE BaseRequest]
  /\ ctx = [r \in RequestIds |-> IF r = 1 THEN InitialContext ELSE IdleContext]
  /\ calls = [r \in RequestIds |-> <<>>]
  /\ records = InitialRecords
  /\ accessGroups = [g \in AccountIds \X GroupIds |-> InitialInclude]
  /\ probe = IdleProbe

\* fetch(request, env): handleRequest runs up to its first await, or to its
\* response.
Fetch(r) ==
  /\ ctx[r].pc = "start"
  /\ LET next == HandleRequest(request[r])
     IN /\ ctx' = [ctx EXCEPT ![r] = next]
        /\ calls' = [calls EXCEPT ![r] = Issue(@, next)]
  /\ UNCHANGED <<request, records, accessGroups, probe>>

\* await cloudflare.findZone(domainName) returns or throws; on return the zone
\* is cached and findRecord is awaited.
FindZoneReturns(r) ==
  /\ ctx[r].pc = "findZone"
  /\ \E reply \in UpstreamReplies :
       LET L    == ctx[r]
           out  == FindZone(request[r].variant, L.domainName, reply)
           next == IF out.threw
                   THEN Throw(L, out.error)
                   ELSE AwaitFindRecord(
                          [L EXCEPT !.zones =
                             ZonesSet(@, L.domainName, out.value)])
       IN /\ ctx' = [ctx EXCEPT ![r] = next]
          /\ calls' = [calls EXCEPT ![r] = Issue(Complete(@, out, reply), next)]
  /\ UNCHANGED <<request, records, accessGroups, probe>>

\* await cloudflare.findRecord(zone, hostname, isIPV4) returns or throws; on
\* return updateRecord is awaited.
FindRecordReturns(r) ==
  /\ ctx[r].pc = "findRecord"
  /\ \E reply \in UpstreamReplies :
       LET L    == ctx[r]
           out  == FindRecord(request[r].variant, records, L.zone,
                              L.hostnames[L.hIdx], L.isIPV4, reply)
           next == IF out.threw
                   THEN Throw(L, out.error)
                   ELSE AfterFindRecord(L, out.value)
       IN /\ ctx' = [ctx EXCEPT ![r] = next]
          /\ calls' = [calls EXCEPT ![r] = Issue(Complete(@, out, reply), next)]
  /\ UNCHANGED <<request, records, accessGroups, probe>>

\* await cloudflare.updateRecord(record, ip) returns or throws; on return the
\* provider has applied the edit and the loop goes on with the next hostname.
UpdateRecordReturns(r) ==
  /\ ctx[r].pc = "updateRecord"
  /\ \E reply \in UpstreamReplies :
       LET L    == ctx[r]
           out  == UpdateRecord(request[r].variant, L.record, L.ip, reply)
           next == IF out.threw
                   THEN Throw(L, out.error)
                   ELSE ForEachHostname([L EXCEPT !.hIdx = @ + 1])
       IN /\ ctx' = [ctx EXCEPT ![r] = next]
          /\ calls' = [calls EXCEPT ![r] = Issue(Complete(@, out, reply), next)]
          /\ records' = IF out.threw THEN records
                        ELSE ApplyEdit(records, L.record, L.ip)
  /\ UNCHANGED <<request, accessGroups, probe>>

\* await cloudflare.updateAccessGroup(accountId, accessGroupId, ip) returns or
\* throws; on return the provider has replaced the include list and the loop
\* goes on with the next IP.
UpdateAccessGroupReturns(r) ==
  /\ ctx[r].pc = "updateAccessGroup"
  /\ \E reply \in UpstreamReplies :
       LET L    == ctx[r]
           out  == UpdateAccessGroup(request[r].variant, reply)
           next == IF out.threw
                   THEN Throw(L, out.error)
                   ELSE ForEachIp([L EXCEPT !.ipIdx = @ + 1])
       IN /\ ctx' = [ctx EXCEPT ![r] = next]
          /\ calls' = [calls EXCEPT ![r] = Issue(Complete(@, out, reply), next)]
          /\ accessGroups' =
               IF out.threw THEN accessGroups
               ELSE [accessGroups EXCEPT ![<<L.accountId, L.accessGroupId>>] =
                       AccessGroupInclude(L.ips[L.ipIdx])]
  /\ UNCHANGED <<request, records, probe>>

Next ==
  \E r \in RequestIds :
    \/ Fetch(r)
    \/ FindZoneReturns(r)
    \/ FindRecordReturns(r)
    \/ UpdateRecordReturns(r)
    \/ UpdateAccessGroupReturns(r)

Spec == Init /\ [][Next]_vars

(***************************************************************************)
(* Two requests handled by two invocations of fetch whose awaits interleave *)
(* in any order, as on one isolate of the runtime.                          *)
(***************************************************************************)
\* The request that arrives first: one or two hostnames, of one domain or of
\* two, one IP or an IPv4 and an IPv6 address.
FirstRequests ==
  {[BaseRequest EXCEPT !.query.hostname = Join(hs, Comma),
                       !.query.ips = Join(is, Comma)] :
     hs \in {<<HostABC>>, <<HostABC, HostXBC>>, <<HostABC, HostDE>>},
     is \in {<<IpV4>>, <<IpV4, IpV6Spaced>>}}

\* The request that arrives second: another IPv4 address for hostnames of the
\* first, with or without an access group.
SecondRequests ==
  {[BaseRequest EXCEPT !.query.hostname = Join(hs, Comma),
                       !.query.ips = IpV4Other,
                       !.query.account = <<"A">>, !.query.group = g] :
     hs \in {<<HostABC>>, <<HostXBC, HostABC>>},
     g \in {undefined, <<"G">>}}

InitConcurrent ==
  /\ \E v \in Variants, a \in FirstRequests, b \in SecondRequests :
       request = [r \in RequestIds |->
                    [(IF r = 1 THEN a ELSE b) EXCEPT !.variant = v]]
  /\ ctx = [r \in RequestIds |-> InitialContext]
  /\ calls = [r \in RequestIds |-> <<>>]
  /\ records = InitialRecords
  /\ accessGroups = [g \in AccountIds \X GroupIds |-> InitialInclude]
  /\ probe = IdleProbe

SpecConcurrent == InitConcurrent /\ [][Next]_vars

\* The invocation of request r has a step to take: it has not started yet, or
\* it awaits a provider call.  Every guard of its actions is one of these
\* program positions, and a call can always return, with whatever reply.
Runnable(r) == ctx[r].pc \in {"start"} \cup AwaitPcs

\* Every provider call eventually returns: the runtime starts every
\* invocation and resumes it once the promise it awaits has settled.  This is
\* the weak fairness of the steps of each request, WF_vars of the disjunction
\* of its actions, written out with Runnable(r) as its enabling condition: an
\* invocation is not runnable forever without taking a step.
EveryCallReturns ==
  \A r \in RequestIds :
    []<>(~Runnable(r)) \/ []<><<TRUE>>_<<ctx[r], calls[r]>>

SpecEveryCallReturns == InitConcurrent /\ [][Next]_vars /\ EveryCallReturns

(***************************************************************************)
(* The domain derivation taken alone, over every hostname and name of a    *)
(* small alphabet.                                                         *)
(***************************************************************************)
InitDomain ==
  /\ request = [r \in RequestIds |-> BaseRequest]
  /\ ctx = [r \in RequestIds |-> IdleContext]
  /\ calls = [r \in RequestIds |-> <<>>]
  /\ records = InitialRecords
  /\ accessGroups = [g \in AccountIds \X GroupIds |-> InitialInclude]
  /\ \E name \in {undefined} \cup SeqsUpTo(DomainAlphabet, MaxNameLen),
        hostname \in SeqsUpTo(DomainAlphabet, MaxHostnameLen) :
       probe = [pc |-> "input", name |-> name, hostname |-> hostname,
                domainName |-> <<>>]

\* const domainName = name && hostname.endsWith(name) ? name : ...
DeriveDomain ==
  /\ probe.pc = "input"
  /\ probe' = [probe EXCEPT !.pc = "output",
                            !.domainName = DomainName(probe.name, probe.hostname)]
  /\ UNCHANGED <<request, ctx, calls, records, accessGroups>>

NextDomain == DeriveDomain

SpecDomain == InitDomain /\ [][NextDomain]_vars

(***************************************************************************)
(* Properties.  What a request asks for is read off the request itself.    *)
(***************************************************************************)
DnsOps == {"findZone", "findRecord", "updateRecord"}

\* The hostname list and the IP list the request carries.
RequestedHostnames(r) == ResolveHostnames(request[r])
RequestedIps(r) == ResolveIps(request[r])

\* The lists of the loops are those of the request: once the request
\* is accepted, the lists the handler iterates over are those of the request.
ListsAreThoseOfTheRequest ==
  \A r \in RequestIds :
    calls[r] # <<>> =>
      /\ ctx[r].hostnames = RequestedHostnames(r)
      /\ ctx[r].ips = RequestedIps(r)
      /\ ctx[r].username = ParseBasicAuth(request[r]).username

\* The entries of a log that satisfy a test, in order.
Entries(log, Test(_)) == SelectSeq(log, Test)

\* The record type of an address: A when it contains a ".", AAAA otherwise.
RecordTypeOf(ip) == IF Includes(ip, ".") THEN "A" ELSE "AAAA"

\* The request was admitted by the HTTPS enforcement, where the handler
\* enforces HTTPS.
HttpsAdmitted(r) ==
  request[r].variant = "js" =>
    request[r].protocol = "https:" /\ request[r].forwardedProto = "https"

IsUpdatePath(r) == EndsWith(request[r].pathname, UpdateSuffix)

IsStaticPath(r) == request[r].pathname \in {Favicon, Robots}

HasCredentials(r) ==
  request[r].authorization # undefined \/ request[r].query.token # undefined

\* C1: in one orchestration call (one IP), once the provider call for
\* hostname k has failed, no findZone, findRecord or updateRecord is issued
\* afterwards for that IP, none at all for the hostnames k+1..n, and the
\* hostnames 1..k-1 have been updated in the order given: one successful
\* updateRecord each, with the IP as value, and the provider holds that value.
C1_SequentialAbort ==
  \A r \in RequestIds :
    LET log == calls[r]
    IN \A i \in 1..Len(log) :
         (log[i].op \in DnsOps /\ log[i].result = "fail") =>
           LET ip == log[i].ipIdx
               k  == log[i].hIdx
               Earlier(e) == e.op = "updateRecord" /\ e.ipIdx = ip /\ e.hIdx < k
               updates == Entries(log, Earlier)
           IN /\ \A j \in 1..Len(log) :
                   (log[j].ipIdx = ip /\ log[j].op \in DnsOps) =>
                     log[j].hIdx <= k /\ j <= i
              /\ Len(updates) = k - 1
              /\ \A h \in 1..(k - 1) :
                   /\ updates[h].hIdx = h
                   /\ updates[h].result = "ok"
                   /\ updates[h].arg.record.name = ctx[r].hostnames[h]
                   /\ updates[h].arg.value = Trim(ctx[r].ips[ip])
                   /\ \E n \in 1..Len(records) :
                        /\ records[n].id = updates[h].arg.record.id
                        /\ records[n].content = updates[h].arg.value

\* Witness of C1: in the call for the second IP the first of two hostnames
\* has failed, after the call for the first IP updated both hostnames.
C1_Witness ==
  \E i \in 1..Len(calls[1]) :
    /\ calls[1][i].op \in DnsOps
    /\ calls[1][i].result = "fail"
    /\ calls[1][i].ipIdx = 2
    /\ calls[1][i].hIdx = 1
    /\ Len(ctx[1].hostnames) = 2
    /\ ctx[1].pc = "done"

\* C2: within one orchestration call findZone is issued exactly once for the
\* domain of every hostname the call has reached, before the hostname's
\* findRecord, and every findRecord of the call is given the zone which that
\* one lookup returned.
C2_OneLookupPerDomain ==
  \A r \in RequestIds :
    LET log == calls[r]
    IN \A i \in 1..Len(log) :
         log[i].op \in DnsOps =>
           LET domain == DomainName(ctx[r].username,
                                    ctx[r].hostnames[log[i].hIdx])
               lookups == {j \in 1..Len(log) :
                             /\ log[j].op = "findZone"
                             /\ log[j].ipIdx = log[i].ipIdx
                             /\ log[j].arg.name = domain}
           IN /\ Cardinality(lookups) = 1
              /\ \A j \in lookups : j <= i
              /\ log[i].op = "findRecord" =>
                   \A j \in lookups :
                     log[j].result = "ok" /\ log[i].arg.zone = log[j].ret

\* Witness of C2: two different hostnames of one domain have both had their
\* findRecord in the same orchestration call.
C2_Witness ==
  \E i, j \in 1..Len(calls[1]) :
    /\ calls[1][i].op = "findRecord"
    /\ calls[1][j].op = "findRecord"
    /\ calls[1][i].ipIdx = calls[1][j].ipIdx
    /\ calls[1][i].hIdx < calls[1][j].hIdx
    /\ calls[1][i].arg.name # calls[1][j].arg.name
    /\ calls[1][i].arg.zone = calls[1][j].arg.zone

\* The account and access-group identifiers of the request: those of the query
\* when given, else the configured ones.
AccessGroupResolvable(r) ==
  /\ Truthy(ResolveAccountId(request[r]))
  /\ Truthy(ResolveAccessGroupId(request[r]))

\* C3: an updateAccessGroup call is issued only when both identifiers are
\* resolvable; it directly follows the successful updateRecord of the last
\* hostname of its IP, is the only one of that IP, carries the resolved
\* identifiers and the IP of the list, and is followed only by calls of the next
\* IP; with both identifiers resolvable the successful updateRecord of the last
\* hostname is always directly followed by it; once it has succeeded the
\* group's include list is the single entry {ip}/32.
C3_AccessGroupPerIp ==
  \A r \in RequestIds :
    LET log == calls[r]
        n   == Len(ctx[r].hostnames)
        LastUpdate(e) == e.op = "updateRecord" /\ e.hIdx = n /\ e.result = "ok"
    IN \A p \in 1..Len(log) :
         /\ log[p].op = "updateAccessGroup" =>
              /\ AccessGroupResolvable(r)
              /\ p > 1
              /\ LastUpdate(log[p - 1])
              /\ log[p - 1].ipIdx = log[p].ipIdx
              /\ log[p].arg.account = ResolveAccountId(request[r])
              /\ log[p].arg.group = ResolveAccessGroupId(request[r])
              /\ log[p].arg.ip = ctx[r].ips[log[p].ipIdx]
              /\ \A q \in 1..Len(log) :
                   (log[q].op = "updateAccessGroup"
                      /\ log[q].ipIdx = log[p].ipIdx) => q = p
              /\ p < Len(log) =>
                   /\ log[p].result = "ok"
                   /\ log[p + 1].ipIdx = log[p].ipIdx + 1
              /\ (log[p].result = "ok"
                    /\ \A q \in (p + 1)..Len(log) :
                         ~(log[q].op = "updateAccessGroup"
                             /\ log[q].result = "ok")) =>
                   accessGroups[<<log[p].arg.account, log[p].arg.group>>] =
                     << log[p].arg.ip \o <<"/", "3", "2">> >>
         /\ (LastUpdate(log[p]) /\ AccessGroupResolvable(r)) =>
              /\ p < Len(log)
              /\ log[p + 1].op = "updateAccessGroup"
              /\ log[p + 1].ipIdx = log[p].ipIdx

\* Witness of C3: a request with two IPs and two hostnames has been answered
\* after one successful access-group update for each IP.
C3_Witness ==
  /\ ctx[1].pc = "done"
  /\ Len(ctx[1].hostnames) = 2
  /\ \E p, q \in 1..Len(calls[1]) :
       /\ p < q
       /\ calls[1][p].op = "updateAccessGroup"
       /\ calls[1][p].ipIdx = 1
       /\ calls[1][p].result = "ok"
       /\ calls[1][q].op = "updateAccessGroup"
       /\ calls[1][q].ipIdx = 2
       /\ calls[1][q].result = "ok"

\* The request passed the routing, the credential checks and the validation of
\* the two lists.
RequestAccepted(r) ==
  /\ HttpsAdmitted(r)
  /\ ~IsStaticPath(r)
  /\ IsUpdatePath(r)
  /\ HasCredentials(r)
  /\ ParseBasicAuth(request[r]).error = NoError
  /\ RequestedHostnames(r) # undefined
  /\ RequestedIps(r) # undefined

\* C4: a request is answered 200 exactly when it was accepted and every
\* provider call succeeded, and the body is then "good"; the successful
\* updateRecord calls are then one per (IP, hostname) pair, ordered by IP and
\* by hostname within an IP, each with the trimmed IP as value on the record of
\* the hostname; and at any time every call but the last has returned.
C4_GoodIffAllSucceeded ==
  \A r \in RequestIds :
    LET log == calls[r]
        IsUpdate(e) == e.op = "updateRecord"
        updates == Entries(log, IsUpdate)
    IN /\ \A i \in 1..(Len(log) - 1) : log[i].result # "pending"
       /\ ctx[r].pc = "done" =>
            /\ ctx[r].response.status = 200 <=>
                 /\ RequestAccepted(r)
                 /\ \A i \in 1..Len(log) : log[i].result = "ok"
            /\ ctx[r].response.status = 200 =>
                 LET hostnames == ctx[r].hostnames
                     ips == ctx[r].ips
                 IN /\ ctx[r].response.body = <<"good">>
                    /\ Len(updates) = Len(ips) * Len(hostnames)
                    /\ \A a \in 1..Len(ips) : \A b \in 1..Len(hostnames) :
                         LET e == updates[(a - 1) * Len(hostnames) + b]
                         IN /\ e.ipIdx = a
                            /\ e.hIdx = b
                            /\ e.result = "ok"
                            /\ e.arg.value = Trim(ips[a])
                            /\ e.arg.record.name = hostnames[b]

\* Witness of C4: a request with two IPs and two hostnames answered 200 after
\* four record updates.
C4_Witness ==
  /\ ctx[1].pc = "done"
  /\ ctx[1].response = Good
  /\ Len(ctx[1].ips) = 2
  /\ Len(ctx[1].hostnames) = 2
  /\ Len(SelectSeq(calls[1], LAMBDA e : e.op = "updateRecord")) = 4

\* The payload of the Authorization header: what follows the first space.
BasicAuthPayload(r) == Split(request[r].authorization, " ")[2]

\* The Authorization header carries a payload that is no valid base64, or
\* whose decoded text has no colon or has a control character.
InvalidBasicAuthPayload(r) ==
  /\ request[r].authorization # undefined
  /\ Len(Split(request[r].authorization, " ")) >= 2
  /\ LET decoded == Atob(BasicAuthPayload(r))
     IN \/ ~decoded.ok
        \/ ~Includes(decoded.value, ":")
        \/ \E i \in 1..Len(decoded.value) : IsControl(decoded.value[i])

\* C5: a request on a path ending in /update whose Authorization header
\* carries an invalid Basic-Auth payload is answered 400 and issues no
\* provider call.
C5_InvalidPayloadIs400 ==
  \A r \in RequestIds :
    (ctx[r].pc = "done" /\ IsUpdatePath(r) /\ InvalidBasicAuthPayload(r)) =>
      ctx[r].response.status = 400 /\ calls[r] = <<>>

\* C6: a request to /favicon.ico or /robots.txt is answered 204 with an empty
\* body, whatever its scheme, headers and parameters, by both handlers, and
\* issues no provider call.
C6_StaticPathsAre204 ==
  \A r \in RequestIds :
    (ctx[r].pc = "done" /\ IsStaticPath(r)) =>
      ctx[r].response = NoContent /\ calls[r] = <<>>

LastTwoLabels(hostname) ==
  LET labels == Split(hostname, ".")
      n      == Len(labels)
  IN IF n <= 2 THEN hostname ELSE labels[n - 1] \o <<".">> \o labels[n]

\* C9 as stated: the domain is the name verbatim when a name is supplied and
\* the hostname ends with it, and the last two dot-separated labels of the
\* hostname otherwise.
C9_DomainIsNameOrLastTwoLabels ==
  probe.pc = "output" =>
    probe.domainName =
      IF Truthy(probe.name) /\ EndsWith(probe.hostname, probe.name)
      THEN probe.name
      ELSE LastTwoLabels(probe.hostname)

\* C9, amended: the domain is the name verbatim when a non-empty name is
\* supplied and the hostname ends with it; otherwise it is the last two
\* dot-separated labels of the hostname when the hostname has at least two
\* labels and its last two labels are not empty, and the whole hostname when
\* it has a single label or one of its last two labels is empty.
C9_DomainIsNameOrLastTwoNonEmptyLabels ==
  probe.pc = "output" =>
    LET labels == Split(probe.hostname, ".")
        n      == Len(labels)
    IN probe.domainName =
         IF Truthy(probe.name) /\ EndsWith(probe.hostname, probe.name)
         THEN probe.name
         ELSE IF n >= 2 /\ labels[n] # <<>> /\ labels[n - 1] # <<>>
         THEN labels[n - 1] \o <<".">> \o labels[n]
         ELSE probe.hostname

\* Witness of C9: a name that is a suffix of the hostname, and not its last
\* two labels, has been taken as the domain; and the derivation has also met
\* a hostname of three labels.
C9_Witness ==
  /\ probe.pc = "output"
  /\ Truthy(probe.name)
  /\ EndsWith(probe.hostname, probe.name)
  /\ Len(Split(probe.hostname, ".")) >= 3
  /\ probe.name # LastTwoLabels(probe.hostname)
  /\ probe.domainName = probe.name

\* C10: every findRecord of an orchestration call asks for the requested
\* hostname and for the type A when the IP contains a "." and AAAA otherwise;
\* the record it returns, which is the record then updated, has that type and
\* that name, and so has the provider's record after the update.
C10_RecordTypeAndName ==
  \A r \in RequestIds :
    LET log == calls[r]
    IN \A i \in 1..Len(log) :
         LET ip       == Trim(ctx[r].ips[log[i].ipIdx])
             hostname == ctx[r].hostnames[log[i].hIdx]
         IN /\ log[i].op = "findRecord" =>
                 /\ log[i].arg.isIPV4 = Includes(ip, ".")
                 /\ log[i].arg.name = hostname
                 /\ log[i].result = "ok" =>
                      /\ log[i].ret.type = RecordTypeOf(ip)
                      /\ log[i].ret.name = hostname
            /\ log[i].op = "updateRecord" =>
                 /\ i > 1
                 /\ log[i - 1].op = "findRecord"
                 /\ log[i - 1].result = "ok"
                 /\ log[i - 1].hIdx = log[i].hIdx
                 /\ log[i].arg.record = log[i - 1].ret
                 /\ log[i].arg.record.type = RecordTypeOf(log[i].arg.value)
                 /\ log[i].arg.record.name = hostname
                 /\ log[i].result = "ok" =>
                      \E n \in 1..Len(records) :
                        /\ records[n].id = log[i].arg.record.id
                        /\ records[n].type = RecordTypeOf(ip)
                        /\ records[n].name = hostname
                        /\ InitialRecords[n].type = RecordTypeOf(ip)
                        /\ InitialRecords[n].name = hostname

\* Witness of C10: one request has updated the A record and the AAAA record
\* of the same hostname, whose zone lists the AAAA record first.
C10_Witness ==
  \E i, j \in 1..Len(calls[1]) :
    /\ calls[1][i].op = "updateRecord"
    /\ calls[1][i].result = "ok"
    /\ calls[1][i].arg.record.type = "A"
    /\ calls[1][j].op = "updateRecord"
    /\ calls[1][j].result = "ok"
    /\ calls[1][j].arg.record.type = "AAAA"
    /\ calls[1][i].arg.record.name = HostDE
    /\ calls[1][j].arg.record.name = HostDE

\* The zone or the record the call asked for is absent: the upstream answered
\* and the client threw all the same.
TargetAbsent(e) == e.result = "fail" /\ e.reply.ok

\* C11 as stated: a failed provider call ends the request with one response
\* whose body is the failure's reason; its status is 404 when the zone or the
\* record is absent and at least 500 for any other failure, 500 when the
\* upstream supplies no status.
C11_ProviderFailureIs404Or5xx ==
  \A r \in RequestIds :
    \A i \in 1..Len(calls[r]) :
      LET e == calls[r][i]
      IN e.result = "fail" =>
           /\ ctx[r].pc = "done"
           /\ ctx[r].response.body = e.ret.message
           /\ TargetAbsent(e) => ctx[r].response.status = 404
           /\ ~TargetAbsent(e) => ctx[r].response.status >= 500
           /\ (~TargetAbsent(e) /\ e.reply.status = 0) =>
                ctx[r].response.status = 500

\* C11, amended: a failed provider call ends the request with one response
\* whose body is the failure's reason: "Failed to find ..." with status 404
\* when the zone or the record is absent, else the upstream's message; the
\* status is then the upstream's status when the typed client is given one
\* (403 stays 403) and 500 otherwise: always 500 with the fetch-based client,
\* and 500 when the upstream supplies no status.
C11_ProviderFailureKeepsUpstreamStatus ==
  \A r \in RequestIds :
    \A i \in 1..Len(calls[r]) :
      LET e == calls[r][i]
      IN e.result = "fail" =>
           /\ i = Len(calls[r])
           /\ ctx[r].pc = "done"
           /\ TargetAbsent(e) =>
                /\ ctx[r].response.status = 404
                /\ e.op \in {"findZone", "findRecord"}
                /\ ctx[r].response.body =
                     IF e.op = "findZone"
                     THEN <<"Failed to find zone", e.arg.name>>
                     ELSE <<"Failed to find DNS record", e.arg.name>>
           /\ ~TargetAbsent(e) =>
                /\ ctx[r].response.body = e.reply.message
                /\ ctx[r].response.status =
                     IF request[r].variant = "ts" /\ e.reply.status # 0
                     THEN e.reply.status
                     ELSE 500

\* Witness of C11: the typed client was answered 403 by the upstream on an
\* updateRecord and the request has been answered 403.
C11_Witness ==
  /\ ctx[1].pc = "done"
  /\ request[1].variant = "ts"
  /\ calls[1] # <<>>
  /\ LET e == calls[1][Len(calls[1])]
     IN /\ e.op = "updateRecord"
        /\ e.result = "fail"
        /\ e.reply.status = 403
  /\ ctx[1].response.status = 403

\* C12: the token the provider client is constructed with is the Basic-Auth
\* password when there is a non-empty one, else the token query parameter when
\* it is not empty, else the configured DDNS_TOKEN.
C12_TokenPrecedence ==
  \A r \in RequestIds :
    calls[r] # <<>> =>
      LET password == ParseBasicAuth(request[r]).password
          token    == request[r].query.token
      IN ctx[r].token =
           IF password # undefined /\ password # <<>> THEN password
           ELSE IF token # undefined /\ token # <<>> THEN token
           ELSE request[r].env.DDNS_TOKEN

\* Witness of C12: a client has been constructed for a request that carries a
\* Basic-Auth password and a different token parameter.
C12_Witness ==
  /\ calls[1] # <<>>
  /\ request[1].authorization = AuthBC
  /\ request[1].query.token = TokenQ
  /\ ctx[1].token = <<"T">>

\* The second orchestration call of the request has the trimmed IP (and the
\* hostnames and the username) of the first one.
SecondRunRepeatsFirst(r) ==
  /\ Len(ctx[r].ips) >= 2
  /\ Trim(ctx[r].ips[1]) = Trim(ctx[r].ips[2])

\* The DNS calls of one orchestration call, in order.
DnsCallsOf(r, ip) ==
  SelectSeq(calls[r], LAMBDA e : e.op \in DnsOps /\ e.ipIdx = ip)

\* Two calls are the same call: the same operation for the same hostname, on
\* the same domain, zone, name and type, or on the same record with the same
\* value.
SameCall(d, e) ==
  /\ d.op = e.op
  /\ d.hIdx = e.hIdx
  /\ d.op = "findZone" => d.arg = e.arg
  /\ d.op = "findRecord" => d.arg = e.arg
  /\ d.op = "updateRecord" =>
       d.arg.value = e.arg.value /\ d.arg.record.id = e.arg.record.id

\* C13: when updateDNSRecords runs a second time with the hostnames, IP and
\* username of a first, successful run, every call of the second run is the
\* call the first run made at the same position, a complete second run has
\* issued one updateRecord per hostname, and no step of the second run changes
\* any record of the provider: content and attributes stay as the first run
\* left them.
C13_SecondRunChangesNothing ==
  /\ [](\A r \in RequestIds :
          SecondRunRepeatsFirst(r) =>
            LET first  == DnsCallsOf(r, 1)
                second == DnsCallsOf(r, 2)
            IN /\ Len(second) <= Len(first)
               /\ \A j \in 1..Len(second) : SameCall(first[j], second[j])
               /\ ctx[r].ipIdx > 2 =>
                    /\ Len(second) = Len(first)
                    /\ Len(SelectSeq(second, LAMBDA e : e.op = "updateRecord"))
                         = Len(ctx[r].hostnames))
  /\ [][\A r \in RequestIds :
          (SecondRunRepeatsFirst(r) /\ ctx[r].ipIdx = 2) => records' = records]_vars

\* Witness of C13: the second run on the IP of the first has updated both
\* hostnames again and the request has been answered.
C13_Witness ==
  /\ ctx[1].pc = "done"
  /\ ctx[1].response = Good
  /\ SecondRunRepeatsFirst(1)
  /\ Len(ctx[1].hostnames) = 2
  /\ ctx[1].hostnames[1] # ctx[1].hostnames[2]
  /\ Len(DnsCallsOf(1, 2)) >= 5

\* Request r takes a step in which its awaited updateRecord returns normally.
UpdateRecordSucceeds(r) ==
  /\ ctx[r].pc = "updateRecord"
  /\ ctx'[r] # ctx[r]
  /\ calls'[r][Len(calls[r])].result = "ok"

\* C14: a successful updateRecord leaves the record it targets with the new IP
\* as content and with the name, type, TTL and proxied flag it had immediately
\* before the call returned, and leaves every other record of the provider as
\* it was.
C14_UpdateRecordFrame ==
  [][\A r \in RequestIds :
       UpdateRecordSucceeds(r) =>
         /\ Len(records') = Len(records)
         /\ \E i \in 1..Len(records) : records[i].id = ctx[r].record.id
         /\ \A i \in 1..Len(records) :
              IF records[i].id = ctx[r].record.id
              THEN /\ records'[i].content = ctx[r].ip
                   /\ records'[i].name = records[i].name
                   /\ records'[i].type = records[i].type
                   /\ records'[i].ttl = records[i].ttl
                   /\ records'[i].proxied = records[i].proxied
                   /\ records'[i].id = records[i].id
                   /\ records'[i].zone_id = records[i].zone_id
              ELSE records'[i] = records[i]]_vars

\* Witness of C14: updateRecord has succeeded on records with a TTL and a
\* proxied flag of their own, which now hold the new address.
C14_Witness ==
  /\ \E j \in 1..Len(calls[1]) :
       /\ calls[1][j].op = "updateRecord"
       /\ calls[1][j].result = "ok"
       /\ calls[1][j].arg.record.id = records[1].id
       /\ calls[1][j].arg.value = records[1].content
  /\ records[1] # InitialRecords[1]
  /\ records[1].proxied
  /\ records[3] # InitialRecords[3]
  /\ records[3].ttl = 120

\* Entries d and e of a log are calls for the same hostname of the same
\* orchestration call.
SameHostname(d, e) == d.ipIdx = e.ipIdx /\ d.hIdx = e.hIdx

\* C15: for every hostname of an orchestration call the provider calls come in
\* the order zone resolution, findRecord, updateRecord: a findRecord directly
\* follows the successful findZone of its hostname or, on a cache hit, uses the
\* zone that an earlier hostname of the call looked up for the same domain; an
\* updateRecord directly follows the successful findRecord of its hostname and
\* is given the record that findRecord returned; and every successful
\* findRecord is directly followed by the one updateRecord of its hostname,
\* whether or not the record already holds the new IP.
C15_PerHostnameOrder ==
  \A r \in RequestIds :
    LET log == calls[r]
    IN \A i \in 1..Len(log) :
         LET e == log[i]
             domain == DomainName(ctx[r].username, ctx[r].hostnames[e.hIdx])
         IN /\ e.op \in DnsOps =>
                 \A j \in 1..Len(log) :
                   (log[j].op = e.op /\ SameHostname(log[j], e)) => j = i
            /\ (e.op = "findZone" /\ e.result = "ok") =>
                 /\ i < Len(log)
                 /\ log[i + 1].op = "findRecord"
                 /\ SameHostname(log[i + 1], e)
            /\ e.op = "findRecord" =>
                 \/ /\ i > 1
                    /\ log[i - 1].op = "findZone"
                    /\ log[i - 1].result = "ok"
                    /\ SameHostname(log[i - 1], e)
                    /\ log[i - 1].arg.name = domain
                    /\ e.arg.zone = log[i - 1].ret
                 \/ /\ \A j \in 1..Len(log) :
                         log[j].op = "findZone" => ~SameHostname(log[j], e)
                    /\ \E j \in 1..(i - 1) :
                         /\ log[j].op = "findZone"
                         /\ log[j].result = "ok"
                         /\ log[j].ipIdx = e.ipIdx
                         /\ log[j].hIdx < e.hIdx
                         /\ log[j].arg.name = domain
                         /\ e.arg.zone = log[j].ret
            /\ (e.op = "findRecord" /\ e.result = "ok") =>
                 /\ i < Len(log)
                 /\ log[i + 1].op = "updateRecord"
                 /\ SameHostname(log[i + 1], e)
            /\ e.op = "updateRecord" =>
                 /\ i > 1
                 /\ log[i - 1].op = "findRecord"
                 /\ log[i - 1].result = "ok"
                 /\ SameHostname(log[i - 1], e)
                 /\ e.arg.record = log[i - 1].ret
                 /\ e.arg.record.name = ctx[r].hostnames[e.hIdx]

\* Witness of C15: a hostname served from the zone cache has had its record
\* written although the record already held the new IP.
C15_Witness ==
  \E i \in 2..Len(calls[1]) :
    /\ calls[1][i].op = "updateRecord"
    /\ calls[1][i].result = "ok"
    /\ calls[1][i].arg.record.content = calls[1][i].arg.value
    /\ calls[1][i].hIdx = 2
    /\ i > 2
    /\ calls[1][i - 2].op = "updateRecord"

\* The writes of a log that succeeded before position i and were not
\* overwritten by a later successful write of the same log to the same target.
LastWritesBefore(log, i, op) ==
  {j \in 1..(i - 1) :
     /\ log[j].op = op
     /\ log[j].result = "ok"
     /\ \A q \in (j + 1)..(i - 1) :
          (log[q].op = op /\ log[q].result = "ok") =>
            IF op = "updateRecord"
            THEN log[q].arg.record.id # log[j].arg.record.id
            ELSE <<log[q].arg.account, log[q].arg.group>>
                   # <<log[j].arg.account, log[j].arg.group>>}

\* C16: the first provider call of a request that fails, updateAccessGroup
\* included, is the last call of the request: nothing is issued after it, the
\* request is answered with the one error response of that failure, and that
\* response never changes; the records and access groups written before the
\* failure keep what was written.
C16_FirstFailureEndsRequest ==
  /\ [](\A r \in RequestIds :
          LET log == calls[r]
          IN \A i \in 1..Len(log) :
               log[i].result = "fail" =>
                 /\ i = Len(log)
                 /\ ctx[r].pc = "done"
                 /\ ctx[r].response = ErrorResponse(log[i].ret)
                 /\ ctx[r].response # Good
                 /\ \A j \in LastWritesBefore(log, i, "updateRecord") :
                      \E n \in 1..Len(records) :
                        /\ records[n].id = log[j].arg.record.id
                        /\ records[n].content = log[j].arg.value
                 /\ \A j \in LastWritesBefore(log, i, "updateAccessGroup") :
                      accessGroups[<<log[j].arg.account, log[j].arg.group>>]
                        = AccessGroupInclude(log[j].arg.ip))
  /\ [][\A r \in RequestIds :
          ctx[r].response # NoResponse =>
            /\ ctx'[r].response = ctx[r].response
            /\ calls'[r] = calls[r]]_vars

\* Witness of C16: the access-group update of the second IP has failed after
\* the records of both IPs and the group were written for the first IP.
C16_Witness ==
  /\ Len(calls[1]) >= 2
  /\ calls[1][Len(calls[1])].op = "updateAccessGroup"
  /\ calls[1][Len(calls[1])].result = "fail"
  /\ calls[1][Len(calls[1])].ipIdx = 2
  /\ ctx[1].pc = "done"
  /\ LastWritesBefore(calls[1], Len(calls[1]), "updateAccessGroup") # {}
  /\ Cardinality(LastWritesBefore(calls[1], Len(calls[1]), "updateRecord")) >= 2

\* Hostname h of request r is the first of its list with its domain.
FirstOfItsDomain(r, h) ==
  \A g \in 1..(h - 1) :
    DomainName(ctx[r].username, ctx[r].hostnames[g])
      # DomainName(ctx[r].username, ctx[r].hostnames[h])

\* C17: whatever the other request has done, every orchestration call of a
\* request looks up the zones itself: the findRecord of a hostname that is the
\* first of its domain in the list is directly preceded by that call's own
\* successful findZone for the hostname, in the call of every IP, and a later
\* hostname of the domain uses the zone that this lookup returned; a zone
\* found by the other request or for an earlier IP is never used instead, and
\* every call is for a hostname and an IP of the request's own lists.
C17_ZoneCachePerCall ==
  \A r \in RequestIds :
    LET log == calls[r]
    IN \A i \in 1..Len(log) :
         /\ log[i].op = "findZone" =>
              log[i].arg.name = DomainName(ctx[r].username,
                                           ctx[r].hostnames[log[i].hIdx])
         /\ log[i].op = "updateRecord" =>
              /\ log[i].arg.value = Trim(ctx[r].ips[log[i].ipIdx])
              /\ log[i].arg.record.name = ctx[r].hostnames[log[i].hIdx]
         /\ log[i].op = "findRecord" =>
           LET e == log[i]
               domain == DomainName(ctx[r].username, ctx[r].hostnames[e.hIdx])
               lookups == {j \in 1..(i - 1) :
                             /\ log[j].op = "findZone"
                             /\ log[j].ipIdx = e.ipIdx
                             /\ log[j].arg.name = domain}
           IN /\ Cardinality(lookups) = 1
              /\ \A j \in lookups :
                   /\ log[j].result = "ok"
                   /\ e.arg.zone = log[j].ret
                   /\ FirstOfItsDomain(r, log[j].hIdx)
                   /\ FirstOfItsDomain(r, e.hIdx) <=>
                        (j = i - 1 /\ log[j].hIdx = e.hIdx)

\* Witness of C17: the second request has looked up the zone that the first
\* request had already found, and the first request has looked it up again for
\* its second IP.
C17_Witness ==
  /\ \E i, j \in 1..Len(calls[1]) :
       /\ i < j
       /\ calls[1][i].op = "findZone" /\ calls[1][i].result = "ok"
       /\ calls[1][j].op = "findZone" /\ calls[1][j].result = "ok"
       /\ calls[1][i].arg = calls[1][j].arg
       /\ calls[1][i].ipIdx = 1 /\ calls[1][j].ipIdx = 2
  /\ \E i \in 1..Len(calls[2]) :
       /\ calls[2][i].op = "findZone" /\ calls[2][i].result = "ok"
       /\ calls[2][i].arg = calls[1][1].arg
  /\ ctx[1].pc \in AwaitPcs
  /\ ctx[2].pc \in AwaitPcs

\* The values that the successful updateRecord calls of request r wrote to the
\* record of this id, the last one of them only.
LastValueWritten(r, id) ==
  LET log == calls[r]
      Writes == {j \in 1..Len(log) :
                   /\ log[j].op = "updateRecord"
                   /\ log[j].result = "ok"
                   /\ log[j].arg.record.id = id}
  IN {log[j].arg.value : j \in {w \in Writes : \A v \in Writes : v <= w}}

\* C18: when two requests update records concurrently, the updateRecord that
\* the provider applies last decides the content: each successful updateRecord
\* leaves its record with the IP of its own request, no other step changes the
\* content of a record, so that a record written by both requests ends with
\* the last value of one of them, and every record keeps the name, type, TTL
\* and proxied flag it had before the requests.
C18_LastWriterWins ==
  /\ [](/\ Len(records) = Len(InitialRecords)
        /\ \A i \in 1..Len(records) :
             /\ records[i] = [InitialRecords[i] EXCEPT !.content = records[i].content]
             /\ LET written == UNION {LastValueWritten(r, records[i].id) :
                                        r \in RequestIds}
                IN IF written = {}
                   THEN records[i].content = InitialRecords[i].content
                   ELSE records[i].content \in written)
  /\ [][\A i \in 1..Len(records) :
          LET Writers == {r \in RequestIds :
                            /\ UpdateRecordSucceeds(r)
                            /\ ctx[r].record.id = records[i].id}
          IN IF Writers = {}
             THEN records'[i].content = records[i].content
             ELSE \A r \in Writers : records'[i].content = ctx[r].ip]_vars

\* Witness of C18: both requests have been answered "good" after writing the
\* same record with different IPv4 addresses, and the record holds the address
\* of the first request, whose write was applied after that of the second.
C18_Witness ==
  /\ ctx[1].pc = "done" /\ ctx[1].response = Good
  /\ ctx[2].pc = "done" /\ ctx[2].response = Good
  /\ LastValueWritten(1, records[1].id) = {IpV4}
  /\ LastValueWritten(2, records[1].id) = {IpV4Other}
  /\ records[1].content = IpV4
  /\ records[1].proxied

\* The domains of the hostnames of request r.
DistinctDomains(r) ==
  {DomainName(ctx[r].username, ctx[r].hostnames[h]) :
     h \in 1..Len(ctx[r].hostnames)}

\* |ips| * (2 * |hostnames| + number of distinct domains + 1)
CallBound(r) ==
  Len(ctx[r].ips)
    * (2 * Len(ctx[r].hostnames) + Cardinality(DistinctDomains(r)) + 1)

\* Request r is suspended on a provider call that has not returned.
AwaitingCall(r) ==
  /\ ctx[r].pc \in AwaitPcs
  /\ calls[r] # <<>>
  /\ calls[r][Len(calls[r])].result = "pending"
  /\ calls[r][Len(calls[r])].op = ctx[r].pc

\* C19: when every provider call eventually returns, every request is
\* eventually answered; it has a response exactly when it is done, it has
\* issued at most |ips| * (2 * |hostnames| + distinct domains + 1) provider
\* calls, and a request that is not answered yet is either not started or
\* suspended on a provider call that has not returned.
C19_EveryRequestAnswered ==
  /\ [](\A r \in RequestIds :
          /\ (ctx[r].response # NoResponse) <=> (ctx[r].pc = "done")
          /\ ctx[r].pc # "start" => Len(calls[r]) <= CallBound(r)
          /\ ctx[r].pc = "start" => calls[r] = <<>>
          /\ ctx[r].pc # "done" => (ctx[r].pc = "start" \/ AwaitingCall(r)))
  /\ <>[](\A r \in RequestIds : ctx[r].pc = "done")

\* Witness of C19: both requests are answered "good", the second after exactly
\* as many provider calls as the bound allows.
C19_Witness ==
  /\ ctx[1].pc = "done" /\ ctx[1].response = Good
  /\ ctx[2].pc = "done" /\ ctx[2].response = Good
  /\ Len(ctx[2].hostnames) = 2
  /\ Len(calls[2]) = CallBound(2)
  /\ Len(calls[2]) = 6
  /\ Len(ctx[1].ips) = 2
  /\ Cardinality(DistinctDomains(1)) = 2
  /\ Len(calls[1]) = 12

\* The address of an allow-list entry: the entry without its /32 suffix.
AddressOf(entry) == SubSeq(entry, 1, Len(entry) - 3)

\* C20: for every IP of the list, the address of the entry that a successful
\* updateAccessGroup has put into the access group is the string that the
\* updateRecord calls for that IP wrote as record content, also when the
\* element of the list has leading or trailing whitespace.
C20_GroupAddressIsRecordContent ==
  \A r \in RequestIds :
    LET log == calls[r]
    IN \A p \in 1..Len(log) :
         (log[p].op = "updateAccessGroup" /\ log[p].result = "ok") =>
           /\ \A e \in {AccessGroupInclude(log[p].arg.ip)[1]} :
                \A j \in 1..Len(log) :
                  (log[j].op = "updateRecord" /\ log[j].ipIdx = log[p].ipIdx) =>
                    AddressOf(e) = log[j].arg.value
           /\ (p = Len(log) \/ (p = Len(log) - 1 /\ ctx[r].pc \in AwaitPcs)) =>
                \A j \in 1..Len(log) :
                  (log[j].op = "updateRecord" /\ log[j].ipIdx = log[p].ipIdx) =>
                    AddressOf(accessGroups[<<log[p].arg.account,
                                             log[p].arg.group>>][1])
                      = log[j].arg.value

====
